---------------------------- MODULE Spec2Model ----------------------------
(***************************************************************************)
(* The cohort extraction notebook (src/extraction/cohort_extraction.ipynb) *)
(* as a state machine: one action per notebook step, the cohort dataframe  *)
(* as a sequence of rows.  A row is [index |-> pandas index label,         *)
(* cols |-> function from column name to cell].  Float cells (laboratory   *)
(* values, the APACHE prediction) are integers counted in 1/Scale units,   *)
(* integer cells are plain integers, text cells are strings.               *)
(***************************************************************************)
EXTENDS Integers, Sequences, FiniteSets, TLC

VARIABLES pc, db, base_cohort, feature_set, dx_groups, cohort,
          wbc_check, pmn_check, lym_check, label, apache_pred, split, files

vars == <<pc, db, base_cohort, feature_set, dx_groups, cohort,
          wbc_check, pmn_check, lym_check, label, apache_pred, split, files>>

(***************************************************************************)
(* Bounds of the model.                                                    *)
(***************************************************************************)
\* stay identifiers 1..MaxStay in the specification that varies the key sets
MaxStay == 3
\* rows per source table in the specifications that vary the row contents
MaxRows == 2

(***************************************************************************)
(* Cells.                                                                  *)
(***************************************************************************)
\* float64 cells are held in tenths: 3.5 is 35, 135. is 1350
Scale == 10
F(x) == x * Scale
\* np.nan in a numeric column: an integer no measurement of the model takes
NaN == -999999
\* None / NaN in a text column: a string no category of the model takes
None == "<None>"
\* the value eICU uses for "not recorded", as cohort.replace(-1, np.nan) reads it
SentinelInt == -1
SentinelFloat == F(SentinelInt)

IsNaN(x) == x = NaN
\* float arithmetic and comparison as numpy does them: NaN propagates through
\* arithmetic and every comparison with NaN is False
Sub(x, c) == IF IsNaN(x) THEN NaN ELSE x - c
Abs(x) == IF IsNaN(x) THEN NaN ELSE IF x < 0 THEN -x ELSE x
Ge(x, y) == ~IsNaN(x) /\ ~IsNaN(y) /\ x >= y
Lt(x, y) == ~IsNaN(x) /\ ~IsNaN(y) /\ x < y
EqNum(x, y) == ~IsNaN(x) /\ ~IsNaN(y) /\ x = y

(***************************************************************************)
(* Strings, character by character.                                        *)
(***************************************************************************)
RECURSIVE StrReplace_First(_, _, _)
RECURSIVE StrReplace(_, _, _)
\* mutant: only the first occurrence replaced
StrReplace_First(s, a, b) ==
    IF s = "" THEN ""
    ELSE IF Head(s) = a THEN b \o Tail(s)
    ELSE Head(s) \o StrReplace_First(Tail(s), a, b)
\* Series.str.replace(a, b) on one value, a a single character
StrReplace(s, a, b) ==
    IF s = "" THEN ""
    ELSE (IF Head(s) = a THEN b ELSE Head(s)) \o StrReplace(Tail(s), a, b)

\* .str.replace leaves a missing value missing
StrReplaceNA(s, a, b) == IF s = None THEN None ELSE StrReplace(s, a, b)

RECURSIVE HasPrefix(_, _)
HasPrefix(s, p) ==
    p = "" \/ (s # "" /\ Head(s) = Head(p) /\ HasPrefix(Tail(s), Tail(p)))

RECURSIVE Contains(_, _)
Contains(s, a) == s # "" /\ (Head(s) = a \/ Contains(Tail(s), a))

Digits == {"0", "1", "2", "3", "4", "5", "6", "7", "8", "9"}
DigitVal(c) ==
    CASE c = "0" -> 0 [] c = "1" -> 1 [] c = "2" -> 2 [] c = "3" -> 3
      [] c = "4" -> 4 [] c = "5" -> 5 [] c = "6" -> 6 [] c = "7" -> 7
      [] c = "8" -> 8 [] c = "9" -> 9

RECURSIVE AllDigits(_)
AllDigits(s) == s = "" \/ (Head(s) \in Digits /\ AllDigits(Tail(s)))
\* the strings astype('int64') converts; any other string raises ValueError
IsIntString(s) == s # "" /\ AllDigits(s)

RECURSIVE ParseAcc(_, _)
ParseAcc(s, acc) ==
    IF s = "" THEN acc ELSE ParseAcc(Tail(s), 10 * acc + DigitVal(Head(s)))
\* astype('int64') on one decimal string
ParseInt(s) == ParseAcc(s, 0)

(***************************************************************************)
(* Sequences and sets.                                                     *)
(***************************************************************************)
Range(s) == {s[i] : i \in 1..Len(s)}

RECURSIVE Flatten(_)
Flatten(ss) == IF ss = <<>> THEN <<>> ELSE Head(ss) \o Flatten(Tail(ss))

RECURSIVE SortedSeq(_)
\* a finite set of integers as the ascending sequence
SortedSeq(S) ==
    IF S = {} THEN <<>>
    ELSE LET m == CHOOSE x \in S : \A y \in S : x <= y
         IN  <<m>> \o SortedSeq(S \ {m})

\* the characters of the model's text, in code point order
Alphabet ==
    " -/0123456789<>ABCDEFGHIJKLMNOPQRSTUVWXYZ_abcdefghijklmnopqrstuvwxyz"

RECURSIVE IndexIn(_, _)
IndexIn(c, s) == IF s = "" \/ Head(s) = c THEN 1 ELSE 1 + IndexIn(c, Tail(s))
\* the place of a character in the order Python sorts strings by
CharRank(c) == IndexIn(c, Alphabet)

RECURSIVE StrLess(_, _)
StrLess(a, b) ==
    IF b = "" THEN FALSE
    ELSE IF a = "" THEN TRUE
    ELSE IF Head(a) = Head(b) THEN StrLess(Tail(a), Tail(b))
    ELSE CharRank(Head(a)) < CharRank(Head(b))

RECURSIVE SortedStrings(_)
SortedStrings(S) ==
    IF S = {} THEN <<>>
    ELSE LET m == CHOOSE x \in S : \A y \in S \ {x} : StrLess(x, y)
         IN  <<m>> \o SortedStrings(S \ {m})

(***************************************************************************)
(* Tables.                                                                 *)
(***************************************************************************)
\* the RangeIndex a query result, a read_csv or a merge result carries
RangeIndexed(rows) == [i \in 1..Len(rows) |-> [index |-> i - 1, cols |-> rows[i]]]

Columns(table) == IF table = <<>> THEN {} ELSE DOMAIN table[1].cols
HasColumns(table, cs) == table = <<>> \/ cs \subseteq Columns(table)

\* df.drop(cs, axis=1)
DropColumns(table, cs) ==
    [i \in 1..Len(table) |->
        [table[i] EXCEPT !.cols = [c \in (DOMAIN @) \ cs |-> @[c]]]]

\* df.assign(name=values), values a numpy array: positional
Assign(table, name, values) ==
    [i \in 1..Len(table) |->
        [table[i] EXCEPT !.cols = (name :> values[i]) @@ @]]

(***************************************************************************)
(* The columns the three sources deliver (PostgreSQL folds the unquoted    *)
(* names of the queries to lower case).                                    *)
(***************************************************************************)
Key == "patientunitstayid"

BaseTextCols ==
    {"age", "gender", "ethnicity", "unit_type", "unitadmitsource",
     "admit_diagnosis", "hospital_expiration"}
BaseIntCols ==
    {"patientunitstayid", "unit_los", "hospital_los", "gcs_meds", "gcs_verbal",
     "gcs_motor", "gcs_eyes", "apache_thrombolytics", "apache_elect_surg",
     "apache_active_tx", "apache_readmit", "apache_ima", "apache_midur",
     "apache_ventday1_worst", "apache_ventday1", "apache_intubday1",
     "apache_graftcount", "apache_score"}
BaseFloatCols ==
    {"height", "weight", "apache_fio2", "apache_pao2", "apache_o2ratio",
     "apache_ejectfx", "apache_creatinine", "apache_prediction"}
BaseCols == BaseTextCols \cup BaseIntCols \cup BaseFloatCols

VitalCols ==
    {"hr_mean", "sbp_periodic_mean", "dbp_periodic_mean", "map_periodic_mean",
     "sbp_aperiodic_mean", "dbp_aperiodic_mean", "map_aperiodic_mean",
     "rr_mean", "spo2_mean", "tempc_mean"}
Analytes ==
    {"aniongap", "albumin", "amylase", "baseexcess", "bicarbonate", "bun",
     "bnp", "cpk", "bilirubin", "calcium", "ioncalcium", "creatinine",
     "chloride", "glucose", "hematocrit", "fibrinogen", "lipase",
     "hemoglobin", "lactate", "lymphs", "magnesium", "pao2", "ph",
     "platelet", "pmn", "phosphate", "potassium", "ptt", "inr", "pt",
     "sodium", "tropi", "tropt", "wbc"}
MinCol(a) == a \o "_min"
MaxCol(a) == a \o "_max"
LabCols == {MinCol(a) : a \in Analytes} \cup {MaxCol(a) : a \in Analytes}
TreatmentCols ==
    {"abx", "pressor", "antiarr", "sedative", "diuretic", "blood_product"}
FeatureCols == {Key} \cup VitalCols \cup LabCols \cup TreatmentCols

DxGroupCols ==
    {"chf", "arryhthmia", "valvdz", "pulmcirc", "pvd", "dm", "renalfail",
     "liverdz", "hypothyroid", "pud", "neuro", "pulm", "htn", "paralysis",
     "hiv", "lymphoma", "mets", "solidca", "cvd", "coagdef", "obesity",
     "wtloss", "electrolyte", "blanemia", "defanemia", "drugabuse",
     "etohabuse", "psychoses", "depression"}
DxCols == {Key, "Unnamed: 0"} \cup DxGroupCols

DerivedCols == {"sodium", "potassium", "glucose", "wbc", "pmn", "lym"}
\* the columns whose cells are float64 when cohort.replace(-1, np.nan) runs
FloatCols == BaseFloatCols \cup VitalCols \cup LabCols \cup DerivedCols
\* the columns whose cells are text when cohort.replace(-1, np.nan) runs
TextCols == BaseTextCols \ {"age"}

(***************************************************************************)
(* The external data: what the two queries and the diagnosis-grouping CSV  *)
(* deliver.  Every source is keyed by the stay identifier.                 *)
(***************************************************************************)
BaseRow(id) ==
    [c \in BaseCols |->
        CASE c = Key -> id
          [] c = "age" -> "60"
          [] c = "gender" -> IF id % 2 = 1 THEN "Male" ELSE "Female"
          [] c = "ethnicity" -> "Caucasian"
          [] c = "unit_type" -> "MICU"
          [] c = "unitadmitsource" -> "Floor"
          [] c = "admit_diagnosis" -> "CHF"
          [] c = "hospital_expiration" -> IF id % 2 = 1 THEN "EXPIRED" ELSE "ALIVE"
          [] c = "unit_los" -> 1000
          [] c = "hospital_los" -> 5000
          [] c = "apache_score" -> 50
          [] c = "apache_prediction" -> id
          [] c \in BaseFloatCols \ {"apache_prediction"} -> F(1)
          [] OTHER -> 0]

FeatureRow(id) ==
    [c \in FeatureCols |->
        CASE c = Key -> id
          [] c \in TreatmentCols -> 0
          [] OTHER -> F(50) + id]

DxRow(id) ==
    [c \in DxCols |->
        CASE c = Key -> id
          [] c = "Unnamed: 0" -> id
          [] OTHER -> 0]

\* a source row with some of its cells replaced
Override(ov, row) ==
    [c \in DOMAIN row |-> IF c \in DOMAIN ov THEN ov[c] ELSE row[c]]

\* the sources holding the stays B, Fs and D, rows as BaseRow, FeatureRow, DxRow
KeyedDb(B, Fs, D) ==
    [base |-> [i \in 1..Cardinality(B) |-> BaseRow(SortedSeq(B)[i])],
     features |-> [i \in 1..Cardinality(Fs) |-> FeatureRow(SortedSeq(Fs)[i])],
     dx |-> [i \in 1..Cardinality(D) |-> DxRow(SortedSeq(D)[i])]]

KeyDbs ==
    {KeyedDb(B, Fs, D) : B \in SUBSET (1..MaxStay), Fs \in SUBSET (1..MaxStay),
                         D \in SUBSET (1..MaxStay)}

\* n stays present in all three sources, the cells of stay i replaced by ov[i]
ContentDb(n, ov) ==
    [base |-> [i \in 1..n |-> Override(ov[i], BaseRow(i))],
     features |-> [i \in 1..n |-> Override(ov[i], FeatureRow(i))],
     dx |-> [i \in 1..n |-> DxRow(i)]]

\* stay 1 takes every combination of Primary, the other stays one of Companion
ContentDbs(Primary, Companion) ==
    UNION {{ContentDb(n, [i \in 1..n |-> IF i = 1 THEN p ELSE cs[i]]) :
               p \in Primary, cs \in [2..n -> Companion]} : n \in 1..MaxRows}

FilterPrimary ==
    [apache_readmit : {0, 1, SentinelInt},
     unitadmitsource : {"Other ICU", "Floor"},
     unit_los : {239, 240},
     hospital_los : {525599, 525600, NaN},
     admit_diagnosis : {"BURN", "CHF"},
     age : {"", "> 89", "15", "16", "89"}]
FilterCompanion ==
    {[age |-> "70"], [age |-> "> 89"], [apache_readmit |-> 1]}

\* a recorded (min, max) pair has min <= max; a missing or -1 end is free
PairOk(mn, mx) ==
    \/ mn \in {NaN, SentinelFloat}
    \/ mx \in {NaN, SentinelFloat}
    \/ mn <= mx
Pairs(a, mins, maxs) ==
    {(MinCol(a) :> p[1]) @@ (MaxCol(a) :> p[2]) :
        p \in {q \in mins \X maxs : PairOk(q[1], q[2])}}

SodiumVals == {NaN, SentinelFloat, F(130), F(133), F(140), F(150)}
PotassiumVals == {NaN, SentinelFloat, 20, 30, 35, 55, 65}
GlucoseVals == {NaN, SentinelFloat, F(50), F(60), F(100), F(140), F(150)}
PredictionVals == {NaN, SentinelFloat, -5, 0, 5, F(1), 15}
LabPrimary ==
    Pairs("sodium", SodiumVals, SodiumVals)
    \cup Pairs("potassium", PotassiumVals, PotassiumVals)
    \cup Pairs("glucose", GlucoseVals, GlucoseVals)
    \cup Pairs("wbc", {NaN, SentinelFloat, 15, F(2), F(5)}, {NaN, F(5), F(12)})
    \cup Pairs("pmn", {NaN, SentinelFloat, F(40), F(45), F(50)}, {NaN, F(60)})
    \cup Pairs("lymphs", {NaN, SentinelFloat, F(10), F(20), F(30)}, {NaN, F(40)})
    \cup [wbc_min : {NaN, 15, F(2)}, pmn_min : {NaN, F(40), F(45)},
          lymphs_min : {NaN, F(10), F(20)}]
    \cup [apache_prediction : PredictionVals]
LabCompanion ==
    {[sodium_min |-> NaN, sodium_max |-> NaN],
     [apache_prediction |-> SentinelFloat],
     [wbc_min |-> 15, pmn_min |-> F(50)]}

CatPrimary ==
    [ethnicity : {"Caucasian", "Other/Unknown", "Native American",
                  "African American", "Asian", "Hispanic", "",
                  "Pacific Islander", None},
     admit_diagnosis : {"CHF", "S-CABG", "S-O/D-X", "S VALVE"},
     unit_type : {"MICU", "Med-Surg ICU", "CCU-CT-ICU", "Neuro/Med ICU"}]
CatCompanion ==
    {[ethnicity |-> "African American"],
     [ethnicity |-> "Other/Unknown", unit_type |-> "Med-Surg ICU"],
     [admit_diagnosis |-> "S-CABG", unit_type |-> "Neuro ICU"]}

\* the cells the six filters read, a NULL age among them
OrderPrimary ==
    [apache_readmit : {0, 1},
     unitadmitsource : {"Other ICU", "Floor"},
     unit_los : {239, 240},
     hospital_los : {525599, 525600},
     admit_diagnosis : {"BURN", "CHF"},
     age : {"", "> 89", "15", "16", None}]
OrderCompanion ==
    {[age |-> None, apache_readmit |-> 1], [age |-> "70"],
     [admit_diagnosis |-> "BURN"]}

\* the outcome and the baseline prediction of a stay
OutcomePrimary ==
    [hospital_expiration : {"EXPIRED", "ALIVE", "", None},
     apache_prediction : {NaN, SentinelFloat, 0, 5, F(1), 15}]
OutcomeCompanion ==
    {[hospital_expiration |-> "EXPIRED", apache_prediction |-> 3],
     [hospital_expiration |-> "ALIVE", apache_prediction |-> F(1)],
     [hospital_expiration |-> None, apache_prediction |-> 0]}

InitWith(dbs) ==
    /\ pc = "views"
    /\ db \in dbs
    /\ base_cohort = <<>>
    /\ feature_set = <<>>
    /\ dx_groups = <<>>
    /\ cohort = <<>>
    /\ wbc_check = <<>>
    /\ pmn_check = <<>>
    /\ lym_check = <<>>
    /\ label = <<>>
    /\ apache_pred = <<>>
    /\ split = [train_X |-> <<>>, test_X |-> <<>>, train_y |-> <<>>,
                test_y |-> <<>>, train_apache |-> <<>>, test_apache |-> <<>>]
    /\ files = [n \in {} |-> <<>>]

Init == InitWith(KeyDbs)
InitFilter == InitWith(ContentDbs(FilterPrimary, FilterCompanion))
InitLabs == InitWith(ContentDbs(LabPrimary, LabCompanion))
InitCat == InitWith(ContentDbs(CatPrimary, CatCompanion))
InitOutcome == InitWith(ContentDbs(OutcomePrimary, OutcomeCompanion))
InitOrder == InitWith(ContentDbs(OrderPrimary, OrderCompanion))

(***************************************************************************)
(* 1, 2 - Materialized views and loading.                                  *)
(***************************************************************************)
\* a step that raised: the notebook run stops there
Abort == pc' = "aborted"

\* generate_materialized_view x 3: execute_query_safely re-raises a failure
GenerateViews ==
    /\ pc = "views"
    /\ \E ok \in BOOLEAN : pc' = IF ok THEN "base" ELSE "aborted"
    /\ UNCHANGED <<db, base_cohort, feature_set, dx_groups, cohort, wbc_check,
                   pmn_check, lym_check, label, apache_pred, split, files>>

\* mutant: a failed query swallowed, the run going on without the base cohort
LoadBaseCohort_Swallowed ==
    /\ pc = "base"
    /\ \E ok \in BOOLEAN :
         /\ base_cohort' = IF ok THEN RangeIndexed(db.base) ELSE <<>>
         /\ pc' = "features"
    /\ UNCHANGED <<db, feature_set, dx_groups, cohort, wbc_check,
                   pmn_check, lym_check, label, apache_pred, split, files>>
\* base_cohort = pd.read_sql_query(base_cohort_query, con)
LoadBaseCohort ==
    /\ pc = "base"
    /\ \E ok \in BOOLEAN :
         IF ok THEN /\ base_cohort' = RangeIndexed(db.base)
                    /\ pc' = "features"
         ELSE /\ Abort
              /\ UNCHANGED base_cohort
    /\ UNCHANGED <<db, feature_set, dx_groups, cohort, wbc_check,
                   pmn_check, lym_check, label, apache_pred, split, files>>

\* feature_set = pd.read_sql_query(feature_set_query, con)
LoadFeatureSet ==
    /\ pc = "features"
    /\ \E ok \in BOOLEAN :
         IF ok THEN /\ feature_set' = RangeIndexed(db.features)
                    /\ pc' = "merge"
         ELSE /\ Abort
              /\ UNCHANGED feature_set
    /\ UNCHANGED <<db, base_cohort, dx_groups, cohort, wbc_check,
                   pmn_check, lym_check, label, apache_pred, split, files>>

\* mutant: every row of right joined to l, whatever its key
JoinRow_Cross(l, right, on) ==
    [j \in 1..Len(right) |-> l.cols @@ right[j].cols]
\* the rows of right whose key equals that of the left row l, joined to l
JoinRow(l, right, on) ==
    LET hits == SelectSeq(right, LAMBDA r : r.cols[on] = l.cols[on])
    IN  [j \in 1..Len(hits) |-> l.cols @@ hits[j].cols]

\* pd.merge(left, right, on=on): the inner join, in the order of the left
\* rows, with a fresh RangeIndex
Merge(left, right, on) ==
    RangeIndexed(Flatten([i \in 1..Len(left) |-> JoinRow(left[i], right, on)]))

\* cohort = pd.merge(base_cohort, feature_set, on='patientunitstayid')
MergeFeatures ==
    /\ pc = "merge"
    /\ cohort' = Merge(base_cohort, feature_set, Key)
    /\ pc' = "dx"
    /\ UNCHANGED <<db, base_cohort, feature_set, dx_groups, wbc_check,
                   pmn_check, lym_check, label, apache_pred, split, files>>

\* dx_groups = pd.read_csv(...); cohort = pd.merge(cohort, dx_groups, on=...)
MergeDxGroups ==
    /\ pc = "dx"
    /\ \E ok \in BOOLEAN :
         IF ok THEN /\ dx_groups' = RangeIndexed(db.dx)
                    /\ cohort' = Merge(cohort, dx_groups', Key)
                    /\ pc' = "readmit"
         ELSE /\ Abort
              /\ UNCHANGED <<dx_groups, cohort>>
    /\ UNCHANGED <<db, base_cohort, feature_set, wbc_check,
                   pmn_check, lym_check, label, apache_pred, split, files>>

(***************************************************************************)
(* 3 - Inclusion / exclusion.                                              *)
(***************************************************************************)
NotReadmit(r) == EqNum(r.cols["apache_readmit"], 0)
NotOtherICU(r) == r.cols["unitadmitsource"] # "Other ICU"
\* mutant: the four-hour boundary excluded
UnitLosOk_Exclusive(r) == r.cols["unit_los"] > 240
UnitLosOk(r) == Ge(r.cols["unit_los"], 240)
HospitalLosOk(r) == Lt(r.cols["hospital_los"], 525600)
NotBurn(r) == r.cols["admit_diagnosis"] # "BURN"
AgeNotTopCoded(r) == r.cols["age"] # "> 89"
AgeNotEmpty(r) == r.cols["age"] # ""
AgeAtLeast16(r) == Ge(r.cols["age"], 16)

FilterFrame == <<db, base_cohort, feature_set, dx_groups, wbc_check,
                 pmn_check, lym_check, label, apache_pred, split, files>>

\* cohort = cohort.loc[cohort.apache_readmit == 0, :]
ExcludeReadmit ==
    /\ pc = "readmit"
    /\ cohort' = SelectSeq(cohort, NotReadmit)
    /\ pc' = "otherICU"
    /\ UNCHANGED FilterFrame

\* cohort = cohort.loc[cohort.unitadmitsource != 'Other ICU', :]
ExcludeOtherICU ==
    /\ pc = "otherICU"
    /\ cohort' = SelectSeq(cohort, NotOtherICU)
    /\ pc' = "unitLos"
    /\ UNCHANGED FilterFrame

\* cohort = cohort.loc[cohort.unit_los >= 240, :]
RequireUnitLos ==
    /\ pc = "unitLos"
    /\ cohort' = SelectSeq(cohort, UnitLosOk)
    /\ pc' = "hospitalLos"
    /\ UNCHANGED FilterFrame

\* cohort = cohort.loc[cohort.hospital_los < 525600, :]
RequireHospitalLos ==
    /\ pc = "hospitalLos"
    /\ cohort' = SelectSeq(cohort, HospitalLosOk)
    /\ pc' = "burn"
    /\ UNCHANGED FilterFrame

\* cohort = cohort.loc[cohort.admit_diagnosis != 'BURN', :]
ExcludeBurn ==
    /\ pc = "burn"
    /\ cohort' = SelectSeq(cohort, NotBurn)
    /\ pc' = "age"
    /\ UNCHANGED FilterFrame

\* cohort.age = cohort.age.astype('int64')
AgeAsInt(table) ==
    [i \in 1..Len(table) |->
        [table[i] EXCEPT !.cols["age"] = ParseInt(@)]]

\* the age cell on a table: two text filters, the conversion of the whole
\* column (which raises on a value that is no integer, a NULL included), the
\* numeric filter
AgeCell(table) ==
    LET known == SelectSeq(SelectSeq(table, AgeNotTopCoded), AgeNotEmpty)
    IN  IF \A i \in 1..Len(known) : IsIntString(known[i].cols["age"])
        THEN [raised |-> FALSE, rows |-> SelectSeq(AgeAsInt(known), AgeAtLeast16)]
        ELSE [raised |-> TRUE, rows |-> <<>>]

RequireAge ==
    /\ pc = "age"
    /\ IF ~AgeCell(cohort).raised
       THEN /\ cohort' = AgeCell(cohort).rows
            /\ pc' = "labdrop"
       ELSE /\ Abort
            /\ UNCHANGED cohort
    /\ UNCHANGED FilterFrame

\* the k-th inclusion/exclusion cell as a function of the table it is given
FilterCell(k, table) ==
    CASE k = 1 -> [raised |-> FALSE, rows |-> SelectSeq(table, NotReadmit)]
      [] k = 2 -> [raised |-> FALSE, rows |-> SelectSeq(table, NotOtherICU)]
      [] k = 3 -> [raised |-> FALSE, rows |-> SelectSeq(table, UnitLosOk)]
      [] k = 4 -> [raised |-> FALSE, rows |-> SelectSeq(table, HospitalLosOk)]
      [] k = 5 -> [raised |-> FALSE, rows |-> SelectSeq(table, NotBurn)]
      [] k = 6 -> AgeCell(table)

RECURSIVE ApplyOrder(_, _)
\* the cells run in the given order on a table; a cell that raises ends the run
ApplyOrder(order, table) ==
    IF order = <<>> THEN [raised |-> FALSE, rows |-> table]
    ELSE LET out == FilterCell(Head(order), table)
         IN  IF out.raised THEN out ELSE ApplyOrder(Tail(order), out.rows)

(***************************************************************************)
(* 4 - Cleaning: the most abnormal laboratory value.                       *)
(***************************************************************************)
\* mutant: the sodium minimum dropped with the unidirectional ends
lab_drop_WithSodium ==
    {"bicarbonate_max", "chloride_max", "calcium_max", "magnesium_max",
     "baseexcess_max", "platelet_max", "hemoglobin_max", "phosphate_max",
     "fibrinogen_max", "ph_max", "hematocrit_max", "creatinine_min",
     "bun_min", "bilirubin_min", "pt_min", "inr_min", "lactate_min",
     "tropi_min", "tropt_min", "amylase_min", "lipase_min", "bnp_min",
     "cpk_min", "albumin_max", "ioncalcium_max", "pao2_max",
     "ptt_min", "aniongap_min", "sodium_min"}
\* mutant: the creatinine maximum dropped in place of the minimum
lab_drop_CreatinineMax ==
    {"bicarbonate_max", "chloride_max", "calcium_max", "magnesium_max",
     "baseexcess_max", "platelet_max", "hemoglobin_max", "phosphate_max",
     "fibrinogen_max", "ph_max", "hematocrit_max", "creatinine_max",
     "bun_min", "bilirubin_min", "pt_min", "inr_min", "lactate_min",
     "tropi_min", "tropt_min", "amylase_min", "lipase_min", "bnp_min",
     "cpk_min", "albumin_max", "ioncalcium_max", "pao2_max",
     "ptt_min", "aniongap_min"}
\* lab_drop, as a set (the list names pt_min and inr_min twice)
lab_drop ==
    {"bicarbonate_max", "chloride_max", "calcium_max", "magnesium_max",
     "baseexcess_max", "platelet_max", "hemoglobin_max", "phosphate_max",
     "fibrinogen_max", "ph_max", "hematocrit_max", "creatinine_min",
     "bun_min", "bilirubin_min", "pt_min", "inr_min", "lactate_min",
     "tropi_min", "tropt_min", "amylase_min", "lipase_min", "bnp_min",
     "cpk_min", "albumin_max", "ioncalcium_max", "pao2_max",
     "ptt_min", "aniongap_min"}

\* cohort = cohort.drop(lab_drop, axis=1); a label that is no column raises
DropLabs ==
    /\ pc = "labdrop"
    /\ IF HasColumns(cohort, lab_drop)
       THEN /\ cohort' = DropColumns(cohort, lab_drop)
            /\ pc' = "sodium"
       ELSE /\ Abort
            /\ UNCHANGED cohort
    /\ UNCHANGED FilterFrame

\* the normal range boundaries and lower limits of normal, in tenths
SodiumLow == 1350
SodiumHigh == 1450
PotassiumLow == 35
PotassiumHigh == 50
GlucoseLow == 700
GlucoseHigh == 1300
WbcLimit == 20
PmnLimit == 450
LymLimit == 200

\* what np.empty may hold before it is written
Garbage == {0, NaN}

\* mutant: the larger deviation must be strictly larger for the minimum
BidirCheck_Strict(mn, mx, lo, hi) ==
    ~IsNaN(mn) /\ ~IsNaN(mx) /\ Abs(Sub(mn, lo)) > Abs(Sub(mx, hi))
\* abs(x_min - lo) >= abs(x_max - hi), one row
BidirCheck(mn, mx, lo, hi) == Ge(Abs(Sub(mn, lo)), Abs(Sub(mx, hi)))

\* mutant: the second assignment skips rows whose maximum is missing
MaskedSelect_SkipNaN(check, mins, maxs, g) ==
    [i \in 1..Len(check) |->
        IF check[i] THEN mins[i] ELSE IF IsNaN(maxs[i]) THEN 0 ELSE maxs[i]]
\* x = np.empty(n); x[check] = x_min[check]; x[~check] = x_max[~check]
MaskedSelect(check, mins, maxs, g) ==
    LET empty == [i \in 1..Len(check) |-> g]
        first == [i \in 1..Len(check) |-> IF check[i] THEN mins[i] ELSE empty[i]]
    IN  [i \in 1..Len(check) |-> IF ~check[i] THEN maxs[i] ELSE first[i]]

Column(table, c) == [i \in 1..Len(table) |-> table[i].cols[c]]

\* cohort.assign(name=...) from the pair of analyte a, then the pair dropped
Derived(table, check, name, a, g) ==
    DropColumns(
        Assign(table, name,
               MaskedSelect(check, Column(table, MinCol(a)),
                            Column(table, MaxCol(a)), g)),
        {MinCol(a), MaxCol(a)})

\* one bidirectional analyte: check, select, assign, drop
BidirStep(from, to, name, a, lo, hi) ==
    /\ pc = from
    /\ IF HasColumns(cohort, {MinCol(a), MaxCol(a)})
       THEN /\ \E g \in Garbage :
                 cohort' = Derived(cohort,
                     [i \in 1..Len(cohort) |->
                         BidirCheck(cohort[i].cols[MinCol(a)],
                                    cohort[i].cols[MaxCol(a)], lo, hi)],
                     name, a, g)
            /\ pc' = to
       ELSE /\ Abort
            /\ UNCHANGED cohort
    /\ UNCHANGED FilterFrame

DeriveSodium ==
    BidirStep("sodium", "potassium", "sodium", "sodium", SodiumLow, SodiumHigh)
DerivePotassium ==
    BidirStep("potassium", "glucose", "potassium", "potassium",
              PotassiumLow, PotassiumHigh)
DeriveGlucose ==
    BidirStep("glucose", "checks", "glucose", "glucose", GlucoseLow, GlucoseHigh)

WbcCheck(r) == Lt(r.cols["wbc_min"], WbcLimit)
\* mutant: the neutrophil selection gated by the white cell count
PmnCheck_ByWbc(r) == Lt(r.cols["wbc_min"], WbcLimit)
PmnCheck(r) == Lt(r.cols["pmn_min"], PmnLimit)
LymCheck(r) == Lt(r.cols["lymphs_min"], LymLimit)

\* wbc_check, pmn_check, lym_check: computed together, before any is used
ThresholdChecks ==
    /\ pc = "checks"
    /\ IF HasColumns(cohort, {"wbc_min", "pmn_min", "lymphs_min"})
       THEN /\ wbc_check' = [i \in 1..Len(cohort) |-> WbcCheck(cohort[i])]
            /\ pmn_check' = [i \in 1..Len(cohort) |-> PmnCheck(cohort[i])]
            /\ lym_check' = [i \in 1..Len(cohort) |-> LymCheck(cohort[i])]
            /\ pc' = "wbc"
       ELSE /\ Abort
            /\ UNCHANGED <<wbc_check, pmn_check, lym_check>>
    /\ UNCHANGED <<db, base_cohort, feature_set, dx_groups, cohort,
                   label, apache_pred, split, files>>

\* one threshold-gated analyte: select by the stored check, assign, drop
ThresholdStep(from, to, name, a, check) ==
    /\ pc = from
    /\ IF HasColumns(cohort, {MinCol(a), MaxCol(a)})
       THEN /\ \E g \in Garbage : cohort' = Derived(cohort, check, name, a, g)
            /\ pc' = to
       ELSE /\ Abort
            /\ UNCHANGED cohort
    /\ UNCHANGED FilterFrame

DeriveWbc == ThresholdStep("wbc", "pmn", "wbc", "wbc", wbc_check)
DerivePmn == ThresholdStep("pmn", "lym", "pmn", "pmn", pmn_check)
DeriveLym == ThresholdStep("lym", "normalize", "lym", "lymphs", lym_check)

\* cohort.replace(-1, np.nan) on one cell of column c: a text cell never
\* equals the number -1
ReplaceSentinel(c, v) ==
    IF c \in TextCols THEN v
    ELSE IF c \in FloatCols THEN (IF v = SentinelFloat THEN NaN ELSE v)
    ELSE (IF v = SentinelInt THEN NaN ELSE v)

Replaced(table) ==
    [i \in 1..Len(table) |->
        [table[i] EXCEPT !.cols = [c \in DOMAIN @ |-> ReplaceSentinel(c, @[c])]]]

\* mutant: a prediction of exactly zero dropped
PredictionOk_Positive(r) == r.cols["apache_prediction"] > 0
\* cohort.apache_prediction >= 0.
PredictionOk(r) == Ge(r.cols["apache_prediction"], 0)

\* the -1 swap on the whole table, then the rows without a prediction >= 0
\* removed (astype('float64') leaves the float cells of the model as they are)
Normalize ==
    /\ pc = "normalize"
    /\ IF HasColumns(cohort, {"apache_prediction"})
       THEN /\ cohort' = SelectSeq(Replaced(cohort), PredictionOk)
            /\ pc' = "dropcols"
       ELSE /\ Abort
            /\ UNCHANGED cohort
    /\ UNCHANGED FilterFrame

\* the columns found unreliable, redundant or looking into the future
unreliable ==
    {"sbp_periodic_mean", "dbp_periodic_mean", "map_periodic_mean",
     "Unnamed: 0", "tempc_mean", "apache_elect_surg", "apache_creatinine",
     "apache_pao2", "apache_fio2", "apache_o2ratio", "hospital_los",
     "unit_los", "unitadmitsource", "apache_score"}

\* cohort = cohort.drop([...], axis=1)
DropUnreliable ==
    /\ pc = "dropcols"
    /\ IF HasColumns(cohort, unreliable)
       THEN /\ cohort' = DropColumns(cohort, unreliable)
            /\ pc' = "adx"
       ELSE /\ Abort
            /\ UNCHANGED cohort
    /\ UNCHANGED FilterFrame

(***************************************************************************)
(* 4 - Formatting: categorical columns into indicators.                    *)
(***************************************************************************)
\* cohort.c = cohort.c.str.replace(a, '_')
Canonical(table, c, a) ==
    [i \in 1..Len(table) |->
        [table[i] EXCEPT !.cols[c] = StrReplaceNA(@, a, "_")]]

\* the levels get_dummies finds: the values present, missing ones left out,
\* in sorted order
Levels(table, c) == SortedStrings({table[i].cols[c] : i \in 1..Len(table)} \ {None})

\* pd.get_dummies(cohort.c, prefix, drop_first=True): one indicator column per
\* level but the first, a missing value all zeros, the index that of cohort
Dummies(table, c, prefix) ==
    LET levels == Levels(table, c)
        kept == {levels[k] : k \in 2..Len(levels)}
        name(l) == prefix \o "_" \o l
    IN  [i \in 1..Len(table) |->
            [index |-> table[i].index,
             cols |-> [n \in {name(l) : l \in kept} |->
                          IF n = name(table[i].cols[c]) THEN 1 ELSE 0]]]

\* pd.concat([left, right], axis=1): the rows of the two tables with the same
\* index label, side by side
ConcatColumns(left, right) ==
    Flatten([i \in 1..Len(left) |->
        LET hits == SelectSeq(right, LAMBDA r : r.index = left[i].index)
        IN  [j \in 1..Len(hits) |->
                [index |-> left[i].index, cols |-> left[i].cols @@ hits[j].cols]]])

\* get_dummies, concat and drop of the categorical column c
Encoded(table, c, prefix) ==
    DropColumns(ConcatColumns(table, Dummies(table, c, prefix)), {c})

\* admit_diagnosis: '-' and '/' to '_', then the adx indicators
EncodeAdmitDiagnosis ==
    /\ pc = "adx"
    /\ IF HasColumns(cohort, {"admit_diagnosis"})
       THEN /\ cohort' = Encoded(Canonical(Canonical(cohort, "admit_diagnosis", "-"),
                                           "admit_diagnosis", "/"),
                                 "admit_diagnosis", "adx")
            /\ pc' = "gender"
       ELSE /\ Abort
            /\ UNCHANGED cohort
    /\ UNCHANGED FilterFrame

\* male_gender = (cohort.gender == 'Male').astype('int'); gender dropped
EncodeGender ==
    /\ pc = "gender"
    /\ IF HasColumns(cohort, {"gender"})
       THEN /\ cohort' = DropColumns(
                 Assign(cohort, "male_gender",
                        [i \in 1..Len(cohort) |->
                            IF cohort[i].cols["gender"] = "Male" THEN 1 ELSE 0]),
                 {"gender"})
            /\ pc' = "ethmap"
       ELSE /\ Abort
            /\ UNCHANGED cohort
    /\ UNCHANGED FilterFrame

eth_map ==
    [k \in {"Caucasian", "Other/Unknown", "Native American", "African American",
            "Asian", "Hispanic", ""} |->
        CASE k = "Caucasian" -> "caucasian"
          [] k = "Other/Unknown" -> "other"
          [] k = "Native American" -> "native_american"
          [] k = "African American" -> "african_american"
          [] k = "Asian" -> "asian"
          [] k = "Hispanic" -> "hispanic"
          [] k = "" -> "other"]

\* Series.map(eth_map) on one value: a value that is no key becomes NaN
MapEthnicity(v) == IF v \in DOMAIN eth_map THEN eth_map[v] ELSE None

\* cohort.ethnicity = cohort.ethnicity.map(eth_map)
RemapEthnicity ==
    /\ pc = "ethmap"
    /\ IF HasColumns(cohort, {"ethnicity"})
       THEN /\ cohort' = [i \in 1..Len(cohort) |->
                 [cohort[i] EXCEPT !.cols["ethnicity"] = MapEthnicity(@)]]
            /\ pc' = "ethdummies"
       ELSE /\ Abort
            /\ UNCHANGED cohort
    /\ UNCHANGED FilterFrame

\* the eth indicators from the remapped ethnicity
EncodeEthnicity ==
    /\ pc = "ethdummies"
    /\ cohort' = Encoded(cohort, "ethnicity", "eth")
    /\ pc' = "unit"
    /\ UNCHANGED FilterFrame

\* unit_type: '-' and ' ' to '_', then the unit indicators
EncodeUnitType ==
    /\ pc = "unit"
    /\ IF HasColumns(cohort, {"unit_type"})
       THEN /\ cohort' = Encoded(Canonical(Canonical(cohort, "unit_type", "-"),
                                           "unit_type", " "),
                                 "unit_type", "unit")
            /\ pc' = "label"
       ELSE /\ Abort
            /\ UNCHANGED cohort
    /\ UNCHANGED FilterFrame

(***************************************************************************)
(* 5 - Train/test split and the six files.                                 *)
(***************************************************************************)
\* a column as the Series pandas hands out: the values with the row index
Series(table, c) ==
    [i \in 1..Len(table) |-> [index |-> table[i].index, val |-> table[i].cols[c]]]

\* mutant: every outcome other than 'ALIVE' counted as a death
LabelOf_NotAlive(r) == IF r.cols["hospital_expiration"] # "ALIVE" THEN 1 ELSE 0
\* (cohort.hospital_expiration == 'EXPIRED').astype('int'), one row
LabelOf(r) == IF r.cols["hospital_expiration"] = "EXPIRED" THEN 1 ELSE 0

\* label, apache_pred, and both columns dropped from the features
SaveLabel ==
    /\ pc = "label"
    /\ IF HasColumns(cohort, {"hospital_expiration", "apache_prediction"})
       THEN /\ label' = [i \in 1..Len(cohort) |->
                 [index |-> cohort[i].index, val |-> LabelOf(cohort[i])]]
            /\ apache_pred' = Series(cohort, "apache_prediction")
            /\ cohort' = DropColumns(cohort, {"hospital_expiration",
                                              "apache_prediction"})
            /\ pc' = "split"
       ELSE /\ Abort
            /\ UNCHANGED <<cohort, label, apache_pred>>
    /\ UNCHANGED <<db, base_cohort, feature_set, dx_groups, wbc_check,
                   pmn_check, lym_check, split, files>>

\* test_size=0.25: ceil(0.25 * n) test rows, the rest train
TestCount(n) == (n + 3) \div 4
Shuffles(n) ==
    {p \in [1..n -> 1..n] : \A i, j \in 1..n : p[i] = p[j] => i = j}
\* an array at the positions idx, in that order
Take(a, idx) == [k \in 1..Len(idx) |-> a[idx[k]]]
Shuffled(perm, from, to) == [k \in 1..(to - from + 1) |-> perm[from + k - 1]]

\* mutant: the label taken in table order, not in the shuffled order
SplitArrays_LabelUnshuffled(X, y, a, perm) ==
    LET n == Len(X)
        test == Shuffled(perm, 1, TestCount(n))
        train == Shuffled(perm, TestCount(n) + 1, n)
    IN  [train_X |-> Take(X, train), test_X |-> Take(X, test),
         train_y |-> SubSeq(y, 1, Len(train)),
         test_y |-> SubSeq(y, Len(train) + 1, n),
         train_apache |-> Take(a, train), test_apache |-> Take(a, test)]
\* train_test_split(X, y, a): one permutation, its head the test positions,
\* its tail the train positions, the same positions taken from every array
SplitArrays(X, y, a, perm) ==
    LET n == Len(X)
        test == Shuffled(perm, 1, TestCount(n))
        train == Shuffled(perm, TestCount(n) + 1, n)
    IN  [train_X |-> Take(X, train), test_X |-> Take(X, test),
         train_y |-> Take(y, train), test_y |-> Take(y, test),
         train_apache |-> Take(a, train), test_apache |-> Take(a, test)]

\* train_test_split(cohort, label, apache_pred, test_size=0.25, random_state=42):
\* the seeded permutation is any permutation; with no row left for the train
\* part scikit-learn raises or returns an empty part, by its version
TrainTestSplit ==
    /\ pc = "split"
    /\ \E perm \in Shuffles(Len(cohort)) : \E raises \in BOOLEAN :
         IF Len(cohort) - TestCount(Len(cohort)) = 0 /\ raises
         THEN /\ Abort
              /\ UNCHANGED split
         ELSE /\ split' = SplitArrays(cohort, label, apache_pred, perm)
              /\ pc' = "persist"
    /\ UNCHANGED <<db, base_cohort, feature_set, dx_groups, cohort, wbc_check,
                   pmn_check, lym_check, label, apache_pred, files>>

\* the six to_csv calls, in the order the notebook makes them
Outputs ==
    <<"train_X", "train_y", "train_apache", "test_X", "test_y", "test_apache">>
\* to_csv(index=False): the rows without their index
Written(name) ==
    IF name \in {"train_X", "test_X"}
    THEN [i \in 1..Len(split[name]) |-> split[name][i].cols]
    ELSE [i \in 1..Len(split[name]) |-> split[name][i].val]

\* the files are written one after the other; a write that fails stops the run
\* with the earlier files on disk
Persist ==
    /\ pc = "persist"
    /\ \E k \in 0..Len(Outputs) :
         /\ files' = [n \in {Outputs[j] : j \in 1..k} |-> Written(n)]
         /\ pc' = IF k = Len(Outputs) THEN "done" ELSE "aborted"
    /\ UNCHANGED <<db, base_cohort, feature_set, dx_groups, cohort, wbc_check,
                   pmn_check, lym_check, label, apache_pred, split>>

Next ==
    \/ GenerateViews
    \/ LoadBaseCohort
    \/ LoadFeatureSet
    \/ MergeFeatures
    \/ MergeDxGroups
    \/ ExcludeReadmit
    \/ ExcludeOtherICU
    \/ RequireUnitLos
    \/ RequireHospitalLos
    \/ ExcludeBurn
    \/ RequireAge
    \/ DropLabs
    \/ DeriveSodium
    \/ DerivePotassium
    \/ DeriveGlucose
    \/ ThresholdChecks
    \/ DeriveWbc
    \/ DerivePmn
    \/ DeriveLym
    \/ Normalize
    \/ DropUnreliable
    \/ EncodeAdmitDiagnosis
    \/ EncodeGender
    \/ RemapEthnicity
    \/ EncodeEthnicity
    \/ EncodeUnitType
    \/ SaveLabel
    \/ TrainTestSplit
    \/ Persist

Spec == Init /\ [][Next]_vars
SpecFilter == InitFilter /\ [][Next]_vars
SpecLabs == InitLabs /\ [][Next]_vars
SpecCat == InitCat /\ [][Next]_vars
SpecOutcome == InitOutcome /\ [][Next]_vars
SpecOrder == InitOrder /\ [][Next]_vars

(***************************************************************************)
(* Properties.                                                             *)
(***************************************************************************)
Stays(table) == {table[i].cols[Key] : i \in 1..Len(table)}
\* the input rows of the Filter stage: the base rows the two merges keep
MergedInput ==
    {base_cohort[j].cols : j \in {k \in 1..Len(base_cohort) :
        base_cohort[k].cols[Key] \in Stays(feature_set) \cap Stays(dx_groups)}}

\* the six conditions, on a row as the sources deliver it (age still text)
Eligible(b) ==
    /\ EqNum(b["apache_readmit"], 0)
    /\ b["unitadmitsource"] # "Other ICU"
    /\ Ge(b["unit_los"], 240)
    /\ Lt(b["hospital_los"], 525600)
    /\ b["admit_diagnosis"] # "BURN"
    /\ b["age"] # "" /\ b["age"] # "> 89"
    /\ IsIntString(b["age"]) /\ ParseInt(b["age"]) >= 16

FeatureOf(id) ==
    (CHOOSE f \in Range(feature_set) : f.cols[Key] = id).cols
OrigMin(r, a) == FeatureOf(r[Key])[MinCol(a)]
OrigMax(r, a) == FeatureOf(r[Key])[MaxCol(a)]

\* the steps between the first derivation and the -1 swap
BeforeSwap ==
    pc \in {"potassium", "glucose", "checks", "wbc", "pmn", "lym", "normalize"}
\* a derived value as the table holds it at the current step: once the -1 swap
\* has run, a derived -1 reads as missing
AsHeld(v) == IF BeforeSwap \/ v # SentinelFloat THEN v ELSE NaN

Distance(x, bound) == IF x >= bound THEN x - bound ELSE bound - x
Bidirectional ==
    {[name |-> "sodium", lo |-> SodiumLow, hi |-> SodiumHigh],
     [name |-> "potassium", lo |-> PotassiumLow, hi |-> PotassiumHigh],
     [name |-> "glucose", lo |-> GlucoseLow, hi |-> GlucoseHigh]}

\* C2: for sodium (135, 145), potassium (3.5, 5.0) and glucose (70, 130) and
\* every row with both ends present, the derived value is the row's min when
\* |min - low| >= |max - high| and the row's max otherwise; a tie selects the
\* min (sodium 130, 140 gives 130; sodium 133, 150 gives 150).
C2_BidirectionalSelection ==
    \A i \in 1..Len(cohort) : \A t \in Bidirectional :
        LET r == cohort[i].cols
        IN  t.name \in DOMAIN r =>
              LET mn == OrigMin(r, t.name)
                  mx == OrigMax(r, t.name)
              IN  /\ (~IsNaN(mn) /\ ~IsNaN(mx)) =>
                        r[t.name] = AsHeld(IF Distance(mn, t.lo) >= Distance(mx, t.hi)
                                           THEN mn ELSE mx)
                  /\ (t.name = "sodium" /\ mn = F(130) /\ mx = F(140)) =>
                        r[t.name] = F(130)
                  /\ (t.name = "sodium" /\ mn = F(133) /\ mx = F(150)) =>
                        r[t.name] = F(150)

\* C2 witness: a derived sodium of 130 from the tie 130, 140 and, in another
\* run, a derived potassium of 5.5 from 3.0, 5.5 is the other tie
C2_Witness ==
    \E i \in 1..Len(cohort) :
        LET r == cohort[i].cols
        IN  /\ "sodium" \in DOMAIN r
            /\ OrigMin(r, "sodium") = F(130)
            /\ OrigMax(r, "sodium") = F(140)
            /\ r["sodium"] = F(130)

Gated ==
    {[name |-> "wbc", a |-> "wbc", limit |-> WbcLimit],
     [name |-> "pmn", a |-> "pmn", limit |-> PmnLimit],
     [name |-> "lym", a |-> "lymphs", limit |-> LymLimit]}

\* C3: for WBC, PMN and lymphocytes and every row, the derived value is the
\* analyte's own minimum if that minimum is strictly below its own threshold
\* (2, 45, 20) and its maximum otherwise, whatever the maximum is; PMN and
\* lymphocytes are selected on their own minimum, never on the WBC minimum.
C3_ThresholdSelection ==
    \A i \in 1..Len(cohort) : \A t \in Gated :
        LET r == cohort[i].cols
        IN  t.name \in DOMAIN r =>
              LET mn == OrigMin(r, t.a)
                  mx == OrigMax(r, t.a)
              IN  r[t.name] = AsHeld(IF ~IsNaN(mn) /\ mn < t.limit THEN mn ELSE mx)

\* C3 witness: a row whose WBC minimum is below 2 while its PMN minimum is at
\* the threshold 45: WBC took its minimum, PMN its maximum
C3_Witness ==
    \E i \in 1..Len(cohort) :
        LET r == cohort[i].cols
        IN  /\ {"wbc", "pmn"} \subseteq DOMAIN r
            /\ OrigMin(r, "wbc") = 15 /\ r["wbc"] = 15
            /\ OrigMin(r, "pmn") = PmnLimit
            /\ r["pmn"] = OrigMax(r, "pmn") /\ r["pmn"] # PmnLimit

\* C4 (as claimed): whenever the selector is about to compare a min/max pair,
\* no cell it reads holds the sentinel -1
C4_SentinelSwappedBeforeSelection ==
    \A i \in 1..Len(cohort) :
        LET r == cohort[i].cols
        IN  /\ pc = "sodium" =>
                 SentinelFloat \notin {r["sodium_min"], r["sodium_max"]}
            /\ pc = "potassium" =>
                 SentinelFloat \notin {r["potassium_min"], r["potassium_max"]}
            /\ pc = "glucose" =>
                 SentinelFloat \notin {r["glucose_min"], r["glucose_max"]}
            /\ pc = "checks" =>
                 SentinelFloat \notin {r["wbc_min"], r["pmn_min"], r["lymphs_min"]}

SelectorSteps ==
    {"labdrop", "sodium", "potassium", "glucose", "checks", "wbc", "pmn", "lym"}
DerivedFrom ==
    {<<"sodium", "sodium">>, <<"potassium", "potassium">>,
     <<"glucose", "glucose">>, <<"wbc", "wbc">>, <<"pmn", "pmn">>,
     <<"lym", "lymphs">>}

C5_BothMissingIsMissing ==
    \A i \in 1..Len(cohort) : \A t \in DerivedFrom :
        LET r == cohort[i].cols
        IN  (/\ t[1] \in DOMAIN r
             /\ IsNaN(OrigMin(r, t[2]))
             /\ IsNaN(OrigMax(r, t[2]))) => IsNaN(r[t[1]])

SelectorStepCompletes == pc \in SelectorSteps => pc' # "aborted"

\* C5: for each of the six derived columns a row whose min and max are both
\* missing gets a missing derived value, and no selector step raises, whatever
\* ends are missing.
C5_MissingPair ==
    []C5_BothMissingIsMissing /\ [][SelectorStepCompletes]_vars

\* C5 witness: the selector has finished on a row whose sodium pair was missing
\* at both ends
C5_Witness ==
    /\ pc = "normalize"
    /\ \E i \in 1..Len(cohort) :
         LET r == cohort[i].cols
         IN  /\ IsNaN(OrigMin(r, "sodium")) /\ IsNaN(OrigMax(r, "sodium"))
             /\ IsNaN(r["sodium"])
             /\ ~IsNaN(r["wbc"])

\* C6: the Missingness Normalizer keeps a row if and only if its
\* apache_prediction is present and >= 0 (a missing, -1 or otherwise negative
\* prediction drops the row), and it never raises.
C6_PredictionFilter ==
    [][pc = "normalize" =>
         /\ pc' = "dropcols"
         /\ \A i \in 1..Len(cohort) :
              LET p == cohort[i].cols["apache_prediction"]
              IN  (cohort[i].cols[Key] \in Stays(cohort')) <=> (~IsNaN(p) /\ p >= 0)]_vars

\* C6 witness: the normalizer has kept a row predicted 0 and dropped another
\* row that had passed the selector with a prediction of -1
C6_Witness ==
    /\ pc = "dropcols"
    /\ \E i \in 1..Len(cohort) : cohort[i].cols["apache_prediction"] = 0
    /\ \E b \in MergedInput :
         /\ Eligible(b)
         /\ b["apache_prediction"] = SentinelFloat
         /\ b[Key] \notin Stays(cohort)

IndexSet(t) == {t[i].index : i \in 1..Len(t)}
\* a stay's cell of column c as base_cohort delivered it
BaseOf(id, c) ==
    (CHOOSE b \in Range(base_cohort) : b.cols[Key] = id).cols[c]
Parts == {<<"train_X", "train_y", "train_apache">>,
          <<"test_X", "test_y", "test_apache">>}

\* C7: the train and test partitions are disjoint, their union is the pre-split
\* row set, and each row is in the same partition in features, label and
\* baseline prediction: the i-th rows of train_X, train_y and train_apache (and
\* of the test files) come from the same stay.
C7_SplitPartition ==
    pc \in {"persist", "done"} =>
        /\ IndexSet(split.train_X) \cap IndexSet(split.test_X) = {}
        /\ IndexSet(split.train_X) \cup IndexSet(split.test_X) = IndexSet(cohort)
        /\ Len(split.train_X) + Len(split.test_X) = Len(cohort)
        /\ \A t \in Parts :
             /\ Len(split[t[2]]) = Len(split[t[1]])
             /\ Len(split[t[3]]) = Len(split[t[1]])
             /\ \A i \in 1..Len(split[t[1]]) :
                  /\ split[t[1]][i] \in Range(cohort)
                  /\ split[t[2]][i] \in Range(label)
                  /\ split[t[3]][i] \in Range(apache_pred)
                  /\ split[t[2]][i].index = split[t[1]][i].index
                  /\ split[t[3]][i].index = split[t[1]][i].index
             /\ pc = "done" =>
                  \A i \in 1..Len(files[t[1]]) :
                      LET id == files[t[1]][i][Key]
                      IN  /\ files[t[3]][i] = BaseOf(id, "apache_prediction")
                          /\ files[t[2]][i] =
                               IF BaseOf(id, "hospital_expiration") = "EXPIRED"
                               THEN 1 ELSE 0

\* C7 witness: the six files are written, two shuffled train rows and a test row
C7_Witness ==
    /\ pc = "done"
    /\ Len(files["train_X"]) = 2
    /\ Len(files["test_y"]) = 1
    /\ files["train_X"][1][Key] > files["train_X"][2][Key]

UniqueStays(t) ==
    \A i, j \in 1..Len(t) : t[i].cols[Key] = t[j].cols[Key] => i = j

\* C8: with the three sources keyed by the stay identifier, the identifier is
\* unique in the cohort after the merges and after every later stage, and no
\* stay is in both partitions: no stage duplicates a row.
C8_StayUnique ==
    /\ UniqueStays(cohort)
    /\ UniqueStays(split.train_X \o split.test_X)

\* C8 witness: the run is complete, two stays matched in all three sources and
\* a third was dropped by a merge
C8_Witness ==
    /\ pc = "done"
    /\ Len(cohort) = 2
    /\ Len(base_cohort) = 3
    /\ Len(split.train_X \o split.test_X) = 2

EthColumns(r) == {c \in DOMAIN r : HasPrefix(c, "eth_")}
Unmapped(e) == e = "" \/ e \notin DOMAIN eth_map

\* C9 (as claimed): every ethnicity that is empty or no key of the lookup table
\* resolves to 'other' and is encoded exactly like an 'Other/Unknown' row
C9_UnmappedIsOther ==
    \A i \in 1..Len(cohort) :
        LET r == cohort[i].cols
        IN  Unmapped(BaseOf(r[Key], "ethnicity")) =>
              /\ pc = "ethdummies" => r["ethnicity"] = "other"
              /\ pc \in {"unit", "label", "split", "persist", "done"} =>
                   \A c \in EthColumns(r) :
                       r[c] = IF c = "eth_other" THEN 1 ELSE 0

Punctuated(c, chars) == \E a \in chars : Contains(c, a)
IndicatorsOf(prefix) ==
    {c \in Columns(cohort) : HasPrefix(c, prefix) /\ c \notin {"unit_type", "unit_los"}}

Merged == Merge(Merge(base_cohort, feature_set, Key), dx_groups, Key)
StayAt(ix) == (CHOOSE m \in Range(Merged) : m.index = ix).cols[Key]
FeatureParts == {"train_X", "test_X"}
LabelParts == {"train_y", "test_y"}
PredictionParts == {"train_apache", "test_apache"}
Extracted == {"hospital_expiration", "apache_prediction"}

\* C11: the label is binary, 1 exactly when the stay's hospital_expiration is
\* the literal 'EXPIRED' and 0 otherwise, a missing outcome included; and once
\* the label and the baseline prediction are extracted neither
\* hospital_expiration nor apache_prediction is a column of the feature table,
\* of its two parts, or of the train_X and test_X files.
C11_BinaryLabel ==
    /\ \A i \in 1..Len(label) :
         /\ label[i].val \in {0, 1}
         /\ label[i].val = 1 <=>
              BaseOf(StayAt(label[i].index), "hospital_expiration") = "EXPIRED"
    /\ pc \in {"split", "persist", "done"} =>
         /\ Len(label) = Len(cohort)
         /\ Columns(cohort) \cap Extracted = {}
    /\ \A n \in FeatureParts :
         /\ Columns(split[n]) \cap Extracted = {}
         /\ n \in DOMAIN files =>
              \A i \in 1..Len(files[n]) : DOMAIN files[n][i] \cap Extracted = {}
    /\ \A n \in LabelParts :
         /\ \A i \in 1..Len(split[n]) : split[n][i].val \in {0, 1}
         /\ n \in DOMAIN files =>
              \A i \in 1..Len(files[n]) : files[n][i] \in {0, 1}

\* C11 witness: the files are written; a stay with a missing outcome is
\* labelled 0 and a stay that expired is labelled 1
C11_Witness ==
    /\ pc = "done"
    /\ \E i, j \in 1..Len(label) :
         /\ BaseOf(StayAt(label[i].index), "hospital_expiration") = None
         /\ label[i].val = 0
         /\ label[j].val = 1
    /\ Len(files["train_X"]) + Len(files["test_X"]) = 2

\* C12 (as claimed): every value of train_apache and test_apache, in the split
\* arrays and in the files, is a probability in [0, 1]
C12_PredictionIsProbability ==
    \A n \in PredictionParts :
        /\ \A i \in 1..Len(split[n]) :
             LET v == split[n][i].val
             IN  ~IsNaN(v) /\ 0 <= v /\ v <= F(1)
        /\ n \in DOMAIN files =>
             \A i \in 1..Len(files[n]) :
                 LET v == files[n][i]
                 IN  ~IsNaN(v) /\ 0 <= v /\ v <= F(1)

\* the orders the six cells can be run in
FilterOrders == Shuffles(6)
PipelineOrder == <<1, 2, 3, 4, 5, 6>>

\* C13 (as claimed): for every input table, the six cells run in any order
\* retain the same set of rows as the order the pipeline runs them in
C13_FiltersCommute ==
    pc = "labdrop" =>
        /\ ApplyOrder(PipelineOrder, Merged) = [raised |-> FALSE, rows |-> cohort]
        /\ \A order \in FilterOrders :
             LET out == ApplyOrder(order, Merged)
             IN  ~out.raised /\ Stays(out.rows) = Stays(cohort)

\* the columns the step at each position reads or drops
Needs ==
    [readmit |-> {"apache_readmit"}, otherICU |-> {"unitadmitsource"},
     unitLos |-> {"unit_los"}, hospitalLos |-> {"hospital_los"},
     burn |-> {"admit_diagnosis"}, age |-> {"age"}, labdrop |-> lab_drop,
     sodium |-> {"sodium_min", "sodium_max"},
     potassium |-> {"potassium_min", "potassium_max"},
     glucose |-> {"glucose_min", "glucose_max"},
     checks |-> {"wbc_min", "pmn_min", "lymphs_min"},
     wbc |-> {"wbc_min", "wbc_max"}, pmn |-> {"pmn_min", "pmn_max"},
     lym |-> {"lymphs_min", "lymphs_max"},
     normalize |-> {"apache_prediction"}, dropcols |-> unreliable,
     adx |-> {"admit_diagnosis"}, gender |-> {"gender"},
     ethmap |-> {"ethnicity"}, ethdummies |-> {"ethnicity"},
     unit |-> {"unit_type"},
     label |-> {"hospital_expiration", "apache_prediction"}]
Derivations ==
    {[at |-> "sodium", name |-> "sodium", a |-> "sodium"],
     [at |-> "potassium", name |-> "potassium", a |-> "potassium"],
     [at |-> "glucose", name |-> "glucose", a |-> "glucose"],
     [at |-> "wbc", name |-> "wbc", a |-> "wbc"],
     [at |-> "pmn", name |-> "pmn", a |-> "pmn"],
     [at |-> "lym", name |-> "lym", a |-> "lymphs"]}

\* every column the coming step reads or drops is still in the table
C14_NeededColumnsPresent ==
    (pc \in DOMAIN Needs /\ cohort # <<>>) => Needs[pc] \subseteq Columns(cohort)

\* a derivation step takes one min/max pair out of the table and puts one
\* derived column in, every other cell as it was; no step from the lab drop
\* to the label extraction raises for a column that is gone
C14_DerivationStep ==
    /\ \A d \in Derivations :
         (pc = d.at /\ cohort # <<>>) =>
             LET pair == {MinCol(d.a), MaxCol(d.a)}
             IN  /\ pair \subseteq Columns(cohort)
                 /\ d.name \notin Columns(cohort)
                 /\ Len(cohort') = Len(cohort)
                 /\ Columns(cohort') = (Columns(cohort) \ pair) \cup {d.name}
                 /\ \A i \in 1..Len(cohort) : \A c \in Columns(cohort) \ pair :
                      cohort'[i].cols[c] = cohort[i].cols[c]
    /\ pc \in DOMAIN Needs \ {"age"} => pc' # "aborted"

\* C14: each of the six derivations reads one min/max pair, adds one derived
\* column and removes both columns of the pair, and no step reads or drops a
\* column that an earlier step has removed.
C14_PairsConsumed ==
    []C14_NeededColumnsPresent /\ [][C14_DerivationStep]_vars

\* C14 witness: the run is complete on a table with rows; the six derived
\* columns are in it and none of the twelve pair columns
C14_Witness ==
    /\ pc = "done"
    /\ cohort # <<>>
    /\ DerivedCols \subseteq Columns(cohort)
    /\ \A d \in Derivations :
         {MinCol(d.a), MaxCol(d.a)} \cap Columns(cohort) = {}

\* the analytes of the unidirectional policy, by the end that is kept
KeepMinimum ==
    {"bicarbonate", "chloride", "calcium", "magnesium", "baseexcess",
     "platelet", "hemoglobin", "phosphate", "fibrinogen", "ph", "hematocrit"}
KeepMaximum ==
    {"creatinine", "bun", "bilirubin", "pt", "inr", "lactate", "tropi",
     "tropt", "amylase", "lipase", "bnp", "cpk"}
AfterLabDrop ==
    {"sodium", "potassium", "glucose", "checks", "wbc", "pmn", "lym",
     "normalize", "dropcols", "adx", "gender", "ethmap", "ethdummies", "unit",
     "label", "split", "persist", "done"}
AfterSwap ==
    {"dropcols", "adx", "gender", "ethmap", "ethdummies", "unit", "label",
     "split", "persist", "done"}
\* a source value as the table holds it: after the -1 swap a -1 is missing
HeldNow(v) == IF pc \in AfterSwap /\ v = SentinelFloat THEN NaN ELSE v

\* C15: after the lab drop, each keep-minimum analyte has its _min column in
\* the table with every row's value as the source delivered it and no _max
\* column, and each keep-maximum analyte has its _max column with every row's
\* value as delivered and no _min column.
C15_UnidirectionalEnds ==
    (pc \in AfterLabDrop /\ cohort # <<>>) =>
        /\ \A a \in KeepMinimum :
             /\ MinCol(a) \in Columns(cohort)
             /\ MaxCol(a) \notin Columns(cohort)
             /\ \A i \in 1..Len(cohort) :
                  cohort[i].cols[MinCol(a)] = HeldNow(OrigMin(cohort[i].cols, a))
        /\ \A a \in KeepMaximum :
             /\ MaxCol(a) \in Columns(cohort)
             /\ MinCol(a) \notin Columns(cohort)
             /\ \A i \in 1..Len(cohort) :
                  cohort[i].cols[MaxCol(a)] = HeldNow(OrigMax(cohort[i].cols, a))

\* C15 witness: the lab drop has just run on two stays whose values differ
C15_Witness ==
    /\ pc = "sodium"
    /\ Len(cohort) = 2
    /\ cohort[1].cols["bicarbonate_min"] # cohort[2].cols["bicarbonate_min"]
    /\ cohort[1].cols["creatinine_max"] # cohort[2].cols["creatinine_max"]
    /\ "creatinine_min" \notin Columns(cohort)

\* C16 (as claimed): every patient kept by the inclusion/exclusion stage has
\* a non-missing age with 16 <= age < 89
C16_AgeInRange ==
    pc \in {"labdrop"} \cup AfterLabDrop =>
        \A i \in 1..Len(cohort) :
            LET age == cohort[i].cols["age"]
            IN  age \in Int /\ ~IsNaN(age) /\ 16 <= age /\ age < 89

ExtractionSteps == {"views", "base", "features", "merge", "dx"}
BeforePersist ==
    (ExtractionSteps \cup {"readmit", "otherICU", "unitLos", "hospitalLos",
                           "burn", "age", "labdrop"} \cup AfterLabDrop) \ {"done"}
\* the three sources are loaded in full and the table has been through every
\* transformation and the split
AllStagesComplete ==
    /\ base_cohort = RangeIndexed(db.base)
    /\ feature_set = RangeIndexed(db.features)
    /\ dx_groups = RangeIndexed(db.dx)
    /\ Stays(cohort) \subseteq Stays(Merged)
    /\ cohort # <<>> =>
         /\ DerivedCols \cup {"male_gender"} \subseteq Columns(cohort)
         /\ Columns(cohort) \cap (lab_drop \cup unreliable \cup Extracted
                \cup {"gender", "ethnicity", "admit_diagnosis", "unit_type"}) = {}
    /\ Len(label) = Len(cohort)
    /\ Len(split.train_X) + Len(split.test_X) = Len(cohort)

\* no file is on disk before the last cell, and a file on disk means every
\* stage before it ran to its end
C17_NoFileBeforeTheEnd ==
    /\ pc \in BeforePersist => DOMAIN files = {}
    /\ DOMAIN files # {} => AllStagesComplete

\* a failed view query, cohort query or file read stops the run where it is,
\* with nothing written; a stopped run takes no further step; files are
\* written by the last cell only
C17_FailureStopsTheRun ==
    /\ (pc \in ExtractionSteps /\ pc' = "aborted") =>
           /\ DOMAIN files' = {}
           /\ UNCHANGED <<base_cohort, feature_set, dx_groups, cohort, split>>
    /\ pc = "aborted" => UNCHANGED vars
    /\ files' # files => pc = "persist"

\* C17: a failed materialized-view query, cohort query or diagnosis-grouping
\* read propagates and aborts the run with none of the six files written, and a
\* file is written only after every extraction and transformation stage has
\* completed.
C17_FailFast ==
    []C17_NoFileBeforeTheEnd /\ [][C17_FailureStopsTheRun]_vars

\* C17 witness: both queries delivered rows, the diagnosis-grouping read
\* failed, the run is stopped and nothing is on disk
C17_Witness ==
    /\ pc = "aborted"
    /\ base_cohort # <<>> /\ feature_set # <<>>
    /\ db.dx # <<>> /\ dx_groups = <<>>
    /\ DOMAIN files = {}

\* a cell that holds a measurement: neither missing nor the -1 that codes it
Real(v) == ~IsNaN(v) /\ v # SentinelFloat

\* the derived value is one of the two ends of the same row
C18_OwnEnd ==
    \A i \in 1..Len(cohort) : \A d \in Derivations :
        LET r == cohort[i].cols
        IN  d.name \in DOMAIN r =>
              r[d.name] \in {AsHeld(OrigMin(r, d.a)), AsHeld(OrigMax(r, d.a))}

\* C18 (as claimed): every derived value is the same row's min or max, and
\* where at least one end of the pair is a real measurement the derived value
\* of the final table is a real measurement
C18_RealWhenAnEndIsReal ==
    /\ C18_OwnEnd
    /\ pc \in AfterSwap =>
         \A i \in 1..Len(cohort) : \A d \in Derivations :
             LET r == cohort[i].cols
             IN  (Real(OrigMin(r, d.a)) \/ Real(OrigMax(r, d.a))) =>
                   Real(r[d.name])

=============================================================================
